---- MODULE Spec2Model ----
(***************************************************************************)
(* Model of the indicator-data resolution layer of data-visualizer         *)
(* (src/utils/data_source.py) and of the chart functions that take its     *)
(* tables (src/utils/visualization_helpers.py).                            *)
(*                                                                         *)
(* The source file holds two definitions of class DataSourceManager.  The  *)
(* first one (lines 14-413) has the registry sdg_indicators, a cache and   *)
(* the entry point fetch_indicator_data; its text breaks off inside        *)
(* _fetch_who_data.  The second one (lines 422-985) is the class the       *)
(* module exports: registry sdg2_indicators, regional_groups, the entry    *)
(* point fetch_sdg_indicator and the static table _get_current_statistics. *)
(* Both entry points are modelled; definitions of the first class that     *)
(* clash with a name of the second carry the suffix V1.                    *)
(*                                                                         *)
(* Conventions.  Values are integers in tenths (9.1 is 91).  An optional   *)
(* list argument is <<>> for None and <<list>> for a given list; the       *)
(* optional source is the string "None" when absent.  A table (DataFrame)  *)
(* is the sequence of its rows.                                            *)
(***************************************************************************)
EXTENDS Integers, Sequences, FiniteSets, TLC

VARIABLES
    req,     \* arguments of the call: [indicator, countries, years, source]
    res,     \* what the last call gave back: [kind, rows, err]
    calls,   \* what the last call did: [adapter, net, fallback, hit]
    env,     \* what the outside did during the last call: [forced, resp, noise]
    cache,   \* self.cache of the first class: key -> [data, timestamp]
    now,     \* wall clock, in hours
    threads, \* calls of fetch_indicator_data in flight: thread -> [pc, df, res, ...]
    data     \* the DataFrame a caller hands to a chart function: [columns, rows]

vars == <<req, res, calls, env, cache, now, threads, data>>

-----------------------------------------------------------------------------
(* Bounds of the model *)

\* largest magnitude, in tenths, of the random variation np.random.normal adds
NoiseMax == 1
\* the clock stops advancing at this hour
MaxTime == 48
\* hours one Tick advances the clock
TickHours == 12
\* a request is enumerated when its adapter draws at most this many variations
MaxDraws == 2

Noise == (0 - NoiseMax)..NoiseMax

None == <<>>
Some(x) == <<x>>
IsNone(o) == o = <<>>
Get(o) == o[1]

Max2(a, b) == IF a >= b THEN a ELSE b

RECURSIVE SeqMin(_)
SeqMin(s) == IF Len(s) = 1 THEN s[1]
             ELSE LET m == SeqMin(Tail(s)) IN IF s[1] <= m THEN s[1] ELSE m

RECURSIVE SeqMax(_)
SeqMax(s) == IF Len(s) = 1 THEN s[1]
             ELSE LET m == SeqMax(Tail(s)) IN IF s[1] >= m THEN s[1] ELSE m

RECURSIVE Flatten(_)
Flatten(ss) == IF ss = <<>> THEN <<>> ELSE Head(ss) \o Flatten(Tail(ss))

Range(s) == {s[i] : i \in DOMAIN s}

-----------------------------------------------------------------------------
(* Static tables of the exported class *)

\* self.sdg2_indicators: code -> default source and the source's native code
sdg2_indicators ==
    [i \in {"2.1.1", "2.1.2", "2.2.1", "2.2.2a", "2.2.2b", "2.2.3"} |->
        CASE i = "2.1.1"  -> [source |-> "fao",    code |-> "FS_R_NUMD"]
          [] i = "2.1.2"  -> [source |-> "fao",    code |-> "FS_R_INSEC"]
          [] i = "2.2.1"  -> [source |-> "unicef", code |-> "NUTR_STUNT_MOD"]
          [] i = "2.2.2a" -> [source |-> "unicef", code |-> "NUTR_WAST_MOD"]
          [] i = "2.2.2b" -> [source |-> "unicef", code |-> "NUTR_OVWT_MOD"]
          [] i = "2.2.3"  -> [source |-> "who",    code |-> "NCD_BMI_30A"]]

\* self.regional_groups, in the order the dict literal lists the regions
regional_groups == <<
    [name |-> "Sub-Saharan Africa", members |-> {
        "AGO", "BEN", "BWA", "BFA", "BDI", "CMR", "CPV", "CAF", "TCD", "COM",
        "COG", "COD", "CIV", "DJI", "GNQ", "ERI", "ETH", "GAB", "GMB", "GHA",
        "GIN", "GNB", "KEN", "LSO", "LBR", "MDG", "MWI", "MLI", "MRT", "MUS",
        "MOZ", "NAM", "NER", "NGA", "RWA", "STP", "SEN", "SYC", "SLE", "SOM",
        "ZAF", "SSD", "SDN", "SWZ", "TZA", "TGO", "UGA", "ZMB", "ZWE"}],
    [name |-> "Southern Asia", members |-> {
        "AFG", "BGD", "BTN", "IND", "IRN", "MDV", "NPL", "PAK", "LKA"}],
    [name |-> "Western Asia", members |-> {
        "ARM", "AZE", "BHR", "CYP", "GEO", "IRQ", "ISR", "JOR", "KWT", "LBN",
        "OMN", "QAT", "SAU", "PSE", "SYR", "TUR", "ARE", "YEM"}],
    [name |-> "Latin America & Caribbean", members |-> {
        "ATG", "ARG", "BHS", "BRB", "BLZ", "BOL", "BRA", "CHL", "COL", "CRI",
        "CUB", "DMA", "DOM", "ECU", "SLV", "GRD", "GTM", "GUY", "HTI", "HND",
        "JAM", "MEX", "NIC", "PAN", "PRY", "PER", "KNA", "LCA", "VCT", "SUR",
        "TTO", "URY", "VEN"}],
    [name |-> "Eastern Asia", members |-> {"CHN", "PRK", "JPN", "KOR", "MNG"}],
    [name |-> "Northern Africa", members |-> {
        "DZA", "EGY", "LBY", "MAR", "SDN", "TUN"}],
    [name |-> "Europe & Northern America", members |-> {
        "ALB", "AND", "AUT", "BLR", "BEL", "BIH", "BGR", "HRV", "CZE", "DNK",
        "EST", "FIN", "FRA", "DEU", "GRC", "HUN", "ISL", "IRL", "ITA", "LVA",
        "LIE", "LTU", "LUX", "MLT", "MDA", "MCO", "MNE", "NLD", "MKD", "NOR",
        "POL", "PRT", "ROU", "RUS", "SMR", "SRB", "SVK", "SVN", "ESP", "SWE",
        "CHE", "UKR", "GBR", "VAT", "CAN", "USA"}],
    [name |-> "Oceania", members |-> {
        "AUS", "FJI", "KIR", "MHL", "FSM", "NRU", "NZL", "PLW", "PNG", "WSM",
        "SLB", "TON", "TUV", "VUT"}] >>

RegionNames == {regional_groups[k].name : k \in DOMAIN regional_groups}

\* the last region, in dict order, whose member list holds the code
_get_region_for_country_last(country_code) ==
    LET hits == {k \in DOMAIN regional_groups :
                    country_code \in regional_groups[k].members}
    IN IF hits = {} THEN "World"
       ELSE regional_groups[CHOOSE k \in hits : \A j \in hits : k >= j].name

\* first region, in dict order, whose member list holds the code; else 'World'
_get_region_for_country(country_code) ==
    LET hits == {k \in DOMAIN regional_groups :
                    country_code \in regional_groups[k].members}
    IN IF hits = {} THEN "World"
       ELSE regional_groups[CHOOSE k \in hits : \A j \in hits : k <= j].name

\* country_names.get(country_code, country_code)
_get_country_name(country_code) ==
    CASE country_code = "USA" -> "United States"
      [] country_code = "CHN" -> "China"
      [] country_code = "IND" -> "India"
      [] country_code = "BRA" -> "Brazil"
      [] country_code = "RUS" -> "Russia"
      [] country_code = "IDN" -> "Indonesia"
      [] country_code = "PAK" -> "Pakistan"
      [] country_code = "BGD" -> "Bangladesh"
      [] country_code = "NGA" -> "Nigeria"
      [] country_code = "MEX" -> "Mexico"
      [] country_code = "JPN" -> "Japan"
      [] country_code = "ETH" -> "Ethiopia"
      [] country_code = "PHL" -> "Philippines"
      [] country_code = "EGY" -> "Egypt"
      [] country_code = "VNM" -> "Vietnam"
      [] country_code = "IRN" -> "Iran"
      [] country_code = "TUR" -> "Turkey"
      [] country_code = "DEU" -> "Germany"
      [] country_code = "THA" -> "Thailand"
      [] country_code = "GBR" -> "United Kingdom"
      [] country_code = "WORLD" -> "World"
      [] OTHER -> country_code

\* a dict of the nine values the adapters and the static table share a shape of
RegionValues(world, ssa, sas, was, lac, eas, naf, oce, ena) ==
    [k \in RegionNames \union {"WORLD"} |->
        CASE k = "WORLD" -> world
          [] k = "Sub-Saharan Africa" -> ssa
          [] k = "Southern Asia" -> sas
          [] k = "Western Asia" -> was
          [] k = "Latin America & Caribbean" -> lac
          [] k = "Eastern Asia" -> eas
          [] k = "Northern Africa" -> naf
          [] k = "Oceania" -> oce
          [] k = "Europe & Northern America" -> ena]

\* d.get(region_name, d.get('WORLD', default)): every dict here has 'WORLD'
DictGet(d, region_name) ==
    IF region_name \in DOMAIN d THEN d[region_name] ELSE d["WORLD"]

current_data    == RegionValues(91, 225, 131, 122, 65, 17, 78, 58, 24)
stunting_data   == RegionValues(232, 307, 317, 138, 113, 48, 173, 86, 26)
wasting_data    == RegionValues(66, 74, 147, 79, 16, 24, 87, 32, 7)
overweight_data == RegionValues(55, 32, 28, 81, 75, 68, 102, 61, 123)
anemia_data     == RegionValues(299, 463, 525, 328, 178, 192, 341, 257, 124)

-----------------------------------------------------------------------------
(* Rows and results *)

Row(cc, name, ic, year, value, source) ==
    [country_code |-> cc, country_name |-> name, indicator_code |-> ic,
     year |-> year, value |-> value, source |-> source]

\* pd.DataFrame(rows)
Table(rows) == [kind |-> "table", rows |-> rows, err |-> ""]
\* the call ended in an exception
Raised(err) == [kind |-> "raise", rows |-> <<>>, err |-> err]
\* the call returned None
NoneResult == [kind |-> "none", rows |-> <<>>, err |-> ""]
\* no call has been made yet
NoCall == [kind |-> "nocall", rows |-> <<>>, err |-> ""]

\* op: the entry point that ran; adapter: the adapter it invoked; net: the HTTP
\* requests sent; fallback: _get_current_statistics was used; hit: a cache hit;
\* age: hours since the entry the cache check found was written, -1 if none;
\* at: the hour of the call
NoCalls == [op |-> "none", adapter |-> "none", net |-> 0, fallback |-> FALSE,
            hit |-> FALSE, age |-> -1, at |-> 0]

\* s[-k:]
LastK(s, k) == IF Len(s) <= k THEN s ELSE SubSeq(s, Len(s) - k + 1, Len(s))

\* the ten years one year later: list(range(2016, 2026))
DefaultYearsShifted == [k \in 1..10 |-> 2015 + k]

\* list(range(2015, 2025))
DefaultYears == [k \in 1..10 |-> 2014 + k]

-----------------------------------------------------------------------------
(* Source adapters of the exported class *)

\* one noisy row per country of the list and year of ys, countries outermost;
\* nz[k] is the variation drawn for the k-th row, clamp the adapter's max(lo, .)
AdapterRows(d, clamped, lo, label, indicator_code, countries, ys, nz) ==
    Flatten([c \in 1..Len(countries) |->
        [y \in 1..Len(ys) |->
            LET v == DictGet(d, _get_region_for_country(countries[c]))
                     + nz[(c - 1) * Len(ys) + y]
            IN Row(countries[c], _get_country_name(countries[c]),
                   indicator_code, ys[y],
                   IF clamped THEN Max2(lo, v) ELSE v, label)]])

\* rows for the years [2023, 2024] whatever years were asked for
_fetch_fao_data(indicator_code, countries, years, nz) ==
    AdapterRows(current_data, FALSE, 0, "FAO",
                indicator_code, countries, <<2023, 2024>>, nz)

\* 'STUNT' in indicator_code, over the native codes of the registry
HasSTUNT(indicator_code) == indicator_code = "NUTR_STUNT_MOD"
\* 'WAST' in indicator_code
HasWAST(indicator_code) == indicator_code = "NUTR_WAST_MOD"

_fetch_unicef_data(indicator_code, countries, years, nz) ==
    LET data_source == IF HasSTUNT(indicator_code) THEN stunting_data
                       ELSE IF HasWAST(indicator_code) THEN wasting_data
                       ELSE overweight_data
    IN AdapterRows(data_source, TRUE, 0, "UNICEF",
                   indicator_code, countries, <<2023, 2024>>, nz)

\* rows for years[-3:]
_fetch_who_data(indicator_code, countries, years, nz) ==
    AdapterRows(anemia_data, TRUE, 50, "WHO",
                indicator_code, countries, LastK(years, 3), nz)

(* World Bank: one HTTP request per country.  A response is                  *)
(*   [net    : "ok" | "timeout"   (requests.get returned / raised),          *)
(*    status : the HTTP status,                                              *)
(*    body   : "data" (a list of two or more, data[1] = recs) | "short" (a   *)
(*             list of one element) | "object" (JSON that is not a list) |   *)
(*             "garbage" (response.json() raises),                           *)
(*    recs   : the records of data[1]]                                       *)
(* and a record is [id (country.id), iso (optional countryiso3code), name   *)
(* (country.value), dateOk (int(date) succeeds), year, hasValue (value is   *)
(* not null), value].                                                        *)

\* the rows of one response's records, up to the first record that raises
RECURSIVE WBRecordRows(_, _, _)
WBRecordRows(recs, country, indicator_code) ==
    IF recs = <<>> THEN <<>>
    ELSE LET r == Head(recs) IN
         IF ~r.hasValue
         THEN WBRecordRows(Tail(recs), country, indicator_code)
         ELSE IF ~r.dateOk
         THEN <<>>     \* int(record.get('date')) raises: except ... continue
         ELSE <<Row(IF IsNone(r.iso) THEN country ELSE Get(r.iso), r.name,
                    indicator_code, r.year, r.value, "World Bank")>>
              \o WBRecordRows(Tail(recs), country, indicator_code)

\* what one country's response adds to data_records
WBResponseRows(rp, country, indicator_code) ==
    IF rp.net = "ok" /\ rp.status = 200 /\ rp.body = "data"
    THEN WBRecordRows(rp.recs, country, indicator_code)
    ELSE <<>>

\* min(years) raises inside the try when years is empty: no request is sent
_fetch_world_bank_data(indicator_code, countries, years, resp) ==
    IF years = <<>> THEN <<>>
    ELSE Flatten([c \in 1..Len(countries) |->
                    WBResponseRows(resp[c], countries[c], indicator_code)])

\* a request per country even when the year list is empty
WBRequestsIgnoringYears(countries, years) == Len(countries)

\* HTTP requests _fetch_world_bank_data sends
WBRequests(countries, years) == IF years = <<>> THEN 0 ELSE Len(countries)

-----------------------------------------------------------------------------
(* The static table *)

\* the region name used as the code, without the upper/replace steps
RegionCodeRaw(region) == region

\* region.upper().replace(' ', '_').replace('&', 'AND')
RegionCode(region) ==
    CASE region = "Sub-Saharan Africa" -> "SUB-SAHARAN_AFRICA"
      [] region = "Southern Asia" -> "SOUTHERN_ASIA"
      [] region = "Western Asia" -> "WESTERN_ASIA"
      [] region = "Latin America & Caribbean" -> "LATIN_AMERICA_AND_CARIBBEAN"
      [] region = "Eastern Asia" -> "EASTERN_ASIA"
      [] region = "Northern Africa" -> "NORTHERN_AFRICA"
      [] region = "Oceania" -> "OCEANIA"
      [] region = "Europe & Northern America" -> "EUROPE_AND_NORTHERN_AMERICA"

\* the default 15.0 for every indicator
global_stats_default(indicator) == 150

\* global_stats.get(indicator, 15.0)
global_stats(indicator) ==
    CASE indicator = "2.1.1"  -> 91
      [] indicator = "2.1.2"  -> 291
      [] indicator = "2.2.1"  -> 232
      [] indicator = "2.2.2a" -> 66
      [] indicator = "2.2.2b" -> 55
      [] indicator = "2.2.3"  -> 299
      [] OTHER -> 150

\* regional_stats: the indicators that have a regional breakdown, each a list
\* of (region, value) in the order of the dict literal
regional_stats(indicator) ==
    CASE indicator = "2.1.1" ->
            << <<"Sub-Saharan Africa", 225>>, <<"Southern Asia", 131>>,
               <<"Western Asia", 122>>, <<"Latin America & Caribbean", 65>>,
               <<"Eastern Asia", 17>>, <<"Northern Africa", 78>>,
               <<"Oceania", 58>>, <<"Europe & Northern America", 24>> >>
      [] indicator = "2.2.1" ->
            << <<"Sub-Saharan Africa", 307>>, <<"Southern Asia", 317>>,
               <<"Western Asia", 138>>, <<"Latin America & Caribbean", 113>>,
               <<"Eastern Asia", 48>>, <<"Northern Africa", 173>>,
               <<"Oceania", 86>>, <<"Europe & Northern America", 26>> >>
      [] OTHER -> << >>

current_year == 2024

\* the label of the static rows as "Reference Statistics"
StatisticsLabelReference == "Reference Statistics"

StatisticsLabel == "UN Official Statistics"

\* the static table without its regional rows
_get_current_statistics_world_only(indicator) ==
    <<Row("WORLD", "World", indicator, current_year,
          global_stats(indicator), StatisticsLabel)>>

_get_current_statistics(indicator) ==
    <<Row("WORLD", "World", indicator, current_year,
          global_stats(indicator), StatisticsLabel)>>
    \o [k \in 1..Len(regional_stats(indicator)) |->
          LET e == regional_stats(indicator)[k]
          IN Row(RegionCode(e[1]), e[1], indicator, current_year, e[2],
                 StatisticsLabel)]

-----------------------------------------------------------------------------
(* The outside world during one call *)

Adapters == {"world_bank", "fao", "unicef", "who"}

WBRecord(iso, name, dateOk, year, hasValue, value) ==
    [id |-> "AO", iso |-> iso, name |-> name, dateOk |-> dateOk, year |-> year,
     hasValue |-> hasValue, value |-> value]

RecA23   == WBRecord(Some("AGO"), "Angola", TRUE, 2023, TRUE, 307)
RecA23b  == WBRecord(Some("AGO"), "Angola", TRUE, 2023, TRUE, 310)
RecA24   == WBRecord(None, "Angola", TRUE, 2024, TRUE, 300)
RecNull  == WBRecord(Some("AGO"), "Angola", TRUE, 2022, FALSE, 0)
RecBad   == WBRecord(Some("AGO"), "Angola", FALSE, 0, TRUE, 305)

WBRecordLists ==
    { <<>>, <<RecA23>>, <<RecA23, RecA23b>>, <<RecNull, RecA24>>,
      <<RecA23, RecBad, RecA24>> }

WBResponse(net, status, body, recs) ==
    [net |-> net, status |-> status, body |-> body, recs |-> recs]

WBResponses ==
    { WBResponse("timeout", 0, "garbage", <<>>),
      WBResponse("ok", 500, "garbage", <<>>),
      WBResponse("ok", 200, "garbage", <<>>),
      WBResponse("ok", 200, "object", <<>>),
      WBResponse("ok", 200, "short", <<>>) }
    \union {WBResponse("ok", 200, "data", recs) : recs \in WBRecordLists}

\* requests.get or response.json() raised
WBRaises(rp) == rp.net = "timeout" \/ (rp.status = 200 /\ rp.body = "garbage")

Env(forced, resp, noise) == [forced |-> forced, resp |-> resp, noise |-> noise]
NoEnv == Env(FALSE, <<>>, <<>>)

-----------------------------------------------------------------------------
(* fetch_sdg_indicator, the entry point of the exported class *)

Request(indicator, countries, years, source) ==
    [indicator |-> indicator, countries |-> countries, years |-> years,
     source |-> source]

\* the default source taken from the far end of the first class's source list
data_source_last(r) ==
    IF r.source \in {"None", ""}
    THEN CASE r.indicator \in {"2.1.1", "2.1.2"} -> "fao"
           [] OTHER -> "world_bank"
    ELSE r.source

\* source or indicator_info['source']
data_source(r) ==
    IF r.source \in {"None", ""} THEN sdg2_indicators[r.indicator].source
    ELSE r.source

\* countries, with the default ['WORLD']
CountriesOf(r) == IF IsNone(r.countries) THEN <<"WORLD">> ELSE Get(r.countries)
\* years, with the default list(range(2015, 2025))
YearsOf(r) == IF IsNone(r.years) THEN DefaultYears ELSE Get(r.years)

\* random variations the adapter of the exported class draws for the request
Draws(adapter, countries, years) ==
    CASE adapter \in {"fao", "unicef"} -> 2 * Len(countries)
      [] adapter = "who" -> Len(LastK(years, 3)) * Len(countries)
      [] OTHER -> 0

\* the table the dispatched adapter returns
AdapterTable(adapter, indicator_code, countries, years, e) ==
    CASE adapter = "world_bank" ->
            _fetch_world_bank_data(indicator_code, countries, years, e.resp)
      [] adapter = "fao" ->
            _fetch_fao_data(indicator_code, countries, years, e.noise)
      [] adapter = "unicef" ->
            _fetch_unicef_data(indicator_code, countries, years, e.noise)
      [] adapter = "who" ->
            _fetch_who_data(indicator_code, countries, years, e.noise)

\* result and effects of fetch_sdg_indicator(r) when the outside behaves as e
SdgOutcome(r, e) ==
    IF r.indicator \notin DOMAIN sdg2_indicators
    THEN [res |-> Raised("Unknown SDG indicator"), calls |-> NoCalls]
    ELSE LET src == data_source(r)
             code == sdg2_indicators[r.indicator].code
             stats == Table(_get_current_statistics(r.indicator))
         IN IF src \notin Adapters
            THEN [res |-> stats,
                  calls |-> [NoCalls EXCEPT !.fallback = TRUE]]
            ELSE IF e.forced
            THEN [res |-> stats,
                  calls |-> [NoCalls EXCEPT !.adapter = src, !.fallback = TRUE]]
            ELSE [res |-> Table(AdapterTable(src, code, CountriesOf(r),
                                             YearsOf(r), e)),
                  calls |-> [NoCalls EXCEPT
                               !.adapter = src,
                               !.net = IF src = "world_bank"
                                       THEN WBRequests(CountriesOf(r), YearsOf(r))
                                       ELSE 0]]

\* the behaviours of the outside a call of the exported class can meet
SdgEnvs(r) ==
    IF r.indicator \notin DOMAIN sdg2_indicators \/ data_source(r) \notin Adapters
    THEN {NoEnv}
    ELSE {Env(TRUE, <<>>, <<>>)} \union
         {Env(FALSE, resp, noise) :
            resp \in [1..(IF data_source(r) = "world_bank"
                          THEN WBRequests(CountriesOf(r), YearsOf(r)) ELSE 0)
                      -> WBResponses],
            noise \in [1..Draws(data_source(r), CountriesOf(r), YearsOf(r))
                       -> Noise]}

ReqIndicators == {"2.1.1", "2.2.1", "2.2.3", "9.9.9"}
ReqCountries == {None, Some(<<>>), Some(<<"AGO">>), Some(<<"AGO", "AGO">>),
                 Some(<<"WORLD", "AGO">>)}
ReqYears == {None, Some(<<>>), Some(<<2024>>), Some(<<2023, 2024>>)}
ReqSources == {"None", "fao", "unicef", "who", "world_bank", "un_stats"}

SdgRequests ==
    {r \in {Request(i, c, y, s) : i \in ReqIndicators, c \in ReqCountries,
                                  y \in ReqYears, s \in ReqSources} :
        r.indicator \in DOMAIN sdg2_indicators =>
            Draws(data_source(r), CountriesOf(r), YearsOf(r)) <= MaxDraws}

fetch_sdg_indicator ==
    \E e \in SdgEnvs(req) :
        /\ res' = SdgOutcome(req, e).res
        /\ calls' = [SdgOutcome(req, e).calls
                        EXCEPT !.op = "fetch_sdg_indicator", !.at = now]
        /\ env' = e
        /\ UNCHANGED <<req, cache, now, threads, data>>

-----------------------------------------------------------------------------
(* The first class: registry, adapters, cache, fetch_indicator_data *)

\* self.sdg_indicators: code -> the ordered list of supporting sources
sdg_indicators ==
    [i \in {"2.1.1", "2.1.2", "2.2.1", "2.2.2a", "2.2.2b", "2.2.3"} |->
        CASE i \in {"2.1.1", "2.1.2"} -> <<"fao">>
          [] i \in {"2.2.1", "2.2.2a", "2.2.2b"} -> <<"unicef", "who", "world_bank">>
          [] i = "2.2.3" -> <<"who", "world_bank">>]

\* the duration a week instead of a day
cache_duration_week == 7 * 24

\* self.cache_duration, hours
cache_duration == 24

\* wb_indicators: the indicators the first World Bank adapter has a code for
wb_indicators == {"2.1.1", "2.2.1", "2.2.2a", "2.2.2b", "2.2.3"}

\* '-'.join(countries): the codes with a "-" between neighbours
RECURSIVE JoinDash(_)
JoinDash(countries) ==
    IF Len(countries) <= 1 THEN countries
    ELSE <<Head(countries), "-">> \o JoinDash(Tail(countries))

\* f"{source}_{indicator}_{'-'.join(countries)}_{min(years)}-{max(years)}"
cache_key(source, indicator, countries, years) ==
    <<source, indicator, JoinDash(countries), SeqMin(years), SeqMax(years)>>

\* self._is_cached(key): the entry exists and is no older than cache_duration
_is_cached(c, key, t) ==
    key \in DOMAIN c /\ t - c[key].timestamp <= cache_duration

\* self._cache_data(key, data): a fresh entry replaces whatever the key held
_cache_data(c, key, df, t) ==
    [k \in DOMAIN c \union {key} |->
        IF k = key THEN [data |-> df, timestamp |-> t] ELSE c[k]]

\* does a record of the first World Bank adapter's loop raise?
WBRecordRaisesV1(r) == r.hasValue /\ ~r.dateOk

\* the single request of the first World Bank adapter raises somewhere
WBRaisesV1(rp) ==
    \/ WBRaises(rp)
    \/ /\ rp.net = "ok" /\ rp.status = 200 /\ rp.body = "data"
       /\ \E k \in DOMAIN rp.recs : WBRecordRaisesV1(rp.recs[k])

\* rows of the first World Bank adapter, for a response that does not raise
_fetch_world_bank_dataV1(indicator, countries, years, rp) ==
    IF rp.net = "ok" /\ rp.status = 200 /\ rp.body = "data"
    THEN LET kept == SelectSeq(rp.recs, LAMBDA r : r.hasValue)
         IN [k \in 1..Len(kept) |->
                Row(kept[k].id, kept[k].name, indicator, kept[k].year,
                    kept[k].value, "World Bank")]
    ELSE <<>>

\* (2015 - year) * 0.2, plus 1.5 from 2020 on
YearEffectFao(year, step, covid) ==
    IF year < 2020 THEN (2015 - year) * step ELSE (2015 - year) * step + covid

\* one row per country and year, countries outermost; nz[k] is the variation
\* drawn for the k-th row
_fetch_fao_dataV1(indicator, countries, years, nz) ==
    Flatten([c \in 1..Len(countries) |->
        [y \in 1..Len(years) |->
            LET country == countries[c]
                year == years[y]
                n == nz[(c - 1) * Len(years) + y]
                value ==
                  CASE indicator = "2.1.1" ->
                        LET base_value ==
                              CASE country \in {"SSA", "AFR", "Sub-Saharan Africa"} -> 225
                                [] country \in {"SAS", "Asia", "Southern Asia"} -> 131
                                [] country \in {"WORLD", "World"} -> 91
                                [] OTHER -> 80
                        IN Max2(1, base_value + YearEffectFao(year, 2, 15) + n)
                    [] indicator = "2.1.2" ->
                        LET base_value == IF country # "WORLD" THEN 250 ELSE 290
                        IN Max2(10, base_value + YearEffectFao(year, 1, 20) + n)
                    [] OTHER -> 155 + n * (145 \div NoiseMax)
            IN Row(country, country, indicator, year, value, "FAO")]])

\* base_values.get(country, default) of the first UNICEF adapter
UnicefBaseV1(indicator, country) ==
    CASE indicator = "2.2.1" ->
            (CASE country = "WORLD" -> 232
               [] country = "Sub-Saharan Africa" -> 307
               [] country = "Southern Asia" -> 317
               [] country = "Western Asia" -> 138
               [] OTHER -> 150)
      [] indicator = "2.2.2a" ->
            (CASE country = "WORLD" -> 66
               [] country = "Sub-Saharan Africa" -> 74
               [] country = "Southern Asia" -> 147
               [] country = "Western Asia" -> 79
               [] OTHER -> 50)
      [] indicator = "2.2.2b" ->
            (CASE country = "WORLD" -> 55
               [] country = "Europe & Northern America" -> 123
               [] country = "Northern Africa" -> 102
               [] country = "Western Asia" -> 81
               [] OTHER -> 60)
      [] OTHER -> 100

_fetch_unicef_dataV1(indicator, countries, years, nz) ==
    Flatten([c \in 1..Len(countries) |->
        [y \in 1..Len(years) |->
            Row(countries[c], countries[c], indicator, years[y],
                Max2(1, UnicefBaseV1(indicator, countries[c])
                        + (2020 - years[y]) * 3
                        + nz[(c - 1) * Len(years) + y]),
                "UNICEF")]])

\* the text of the first class breaks off inside this method: its loops end
\* in the assignment of a string and the method returns None
_fetch_who_dataV1(indicator, countries, years) == NoneResult

\* random variations the adapter of the first class draws for the request
DrawsV1(adapter, countries, years) ==
    IF adapter \in {"fao", "unicef"} THEN Len(countries) * Len(years) ELSE 0

\* HTTP requests the adapter of the first class sends
NetV1(adapter, indicator) ==
    IF adapter = "world_bank" /\ indicator \in wb_indicators THEN 1 ELSE 0

\* does self._fetch_data_by_source raise when the outside behaves as e?
FetchRaisesV1(source, indicator, e) ==
    \/ e.forced
    \/ source = "world_bank" /\ indicator \in wb_indicators /\ WBRaisesV1(e.resp[1])

\* self._fetch_data_by_source, when it does not raise
_fetch_data_by_source(source, indicator, countries, years, e) ==
    CASE source = "world_bank" ->
            Table(IF indicator \in wb_indicators
                  THEN _fetch_world_bank_dataV1(indicator, countries, years, e.resp[1])
                  ELSE <<>>)
      [] source = "fao" ->
            Table(_fetch_fao_dataV1(indicator, countries, years, e.noise))
      [] source = "unicef" ->
            Table(_fetch_unicef_dataV1(indicator, countries, years, e.noise))
      [] source = "who" -> _fetch_who_dataV1(indicator, countries, years)

\* the source the first class uses: the first listed one when none is given
SourceV1(r) ==
    IF r.source = "None" THEN sdg_indicators[r.indicator][1] ELSE r.source

\* fetch_indicator_data(r) from the cache check on (lines 209-222), at hour t
\* with cache c, when the outside behaves as e
V1Resolve(r, e, c, t) ==
    LET src == SourceV1(r)
        key == cache_key(src, r.indicator, CountriesOf(r), YearsOf(r))
        found == [NoCalls EXCEPT
                    !.age = IF key \in DOMAIN c THEN t - c[key].timestamp ELSE -1]
    IN IF _is_cached(c, key, t)
       THEN [res |-> c[key].data,
             calls |-> [found EXCEPT !.hit = TRUE], cache |-> c]
       ELSE IF FetchRaisesV1(src, r.indicator, e)
       THEN [res |-> Table(<<>>),
             calls |-> [found EXCEPT !.adapter = src,
                          !.net = IF e.forced THEN 0
                                  ELSE NetV1(src, r.indicator)],
             cache |-> c]
       ELSE LET df == _fetch_data_by_source(src, r.indicator,
                                            CountriesOf(r), YearsOf(r), e)
            IN [res |-> df,
                calls |-> [found EXCEPT !.adapter = src,
                                        !.net = NetV1(src, r.indicator)],
                cache |-> _cache_data(c, key, df, t)]

\* fetch_indicator_data(r) once the indicator is known to the registry
V1Validated(r, e, c, t) ==
    IF SourceV1(r) \notin Range(sdg_indicators[r.indicator])
    THEN [res |-> Raised("Source not available"), calls |-> NoCalls, cache |-> c]
    ELSE IF YearsOf(r) = <<>>
    THEN [res |-> Raised("min() arg is an empty sequence"),
          calls |-> NoCalls, cache |-> c]
    ELSE V1Resolve(r, e, c, t)

\* the registry check moved inside the try block: the ValueError of an
\* unknown indicator is swallowed and an empty table returned
V1OutcomeCheckInTry(r, e, c, t) ==
    IF r.indicator \notin DOMAIN sdg_indicators
    THEN [res |-> Table(<<>>), calls |-> NoCalls, cache |-> c]
    ELSE V1Validated(r, e, c, t)

\* result, effects and next cache of fetch_indicator_data(r) at hour t with
\* cache c, when the outside behaves as e
V1Outcome(r, e, c, t) ==
    IF r.indicator \notin DOMAIN sdg_indicators
    THEN [res |-> Raised("Unknown indicator"), calls |-> NoCalls, cache |-> c]
    ELSE V1Validated(r, e, c, t)

\* does fetch_indicator_data(r) get as far as the adapter with cache c at t?
ReachesAdapterV1(r, c, t) ==
    /\ r.indicator \in DOMAIN sdg_indicators
    /\ SourceV1(r) \in Range(sdg_indicators[r.indicator])
    /\ YearsOf(r) # <<>>
    /\ ~_is_cached(c, cache_key(SourceV1(r), r.indicator, CountriesOf(r), YearsOf(r)), t)

\* the behaviours of the outside a call of the first class can meet
V1Envs(r, c, t) ==
    IF ~ReachesAdapterV1(r, c, t) THEN {NoEnv}
    ELSE {Env(TRUE, <<>>, <<>>)} \union
         {Env(FALSE, resp, noise) :
            resp \in [1..NetV1(SourceV1(r), r.indicator) -> WBResponses],
            noise \in [1..DrawsV1(SourceV1(r), CountriesOf(r), YearsOf(r))
                       -> Noise]}

V1Requests ==
    {r \in {Request(i, c, y, s) : i \in ReqIndicators, c \in ReqCountries,
                                  y \in ReqYears, s \in ReqSources} :
        (r.indicator \in DOMAIN sdg_indicators
         /\ SourceV1(r) \in Range(sdg_indicators[r.indicator])) =>
            DrawsV1(SourceV1(r), CountriesOf(r), YearsOf(r)) <= MaxDraws}

fetch_indicator_data ==
    \E e \in V1Envs(req, cache, now) :
        /\ res' = V1Outcome(req, e, cache, now).res
        /\ calls' = [V1Outcome(req, e, cache, now).calls
                        EXCEPT !.op = "fetch_indicator_data", !.at = now]
        /\ cache' = V1Outcome(req, e, cache, now).cache
        /\ env' = e
        /\ UNCHANGED <<req, now, threads, data>>

\* time passes between two calls
Tick ==
    /\ now + TickHours <= MaxTime
    /\ now' = now + TickHours
    /\ UNCHANGED <<req, res, calls, env, cache, threads, data>>

-----------------------------------------------------------------------------
(* test_connection, the connectivity probe of both classes *)

\* what the one HTTP request of a probe meets:
\*   net     : "ok" | "timeout" (requests.exceptions.Timeout) |
\*             "connection_error" (requests.exceptions.ConnectionError),
\*   status  : the HTTP status,
\*   body    : "list" (JSON list of two or more) | "object" (other JSON) |
\*             "empty" (no content) | "garbage" (response.json() raises),
\*   jsonErr : the class of what response.json() raises on garbage, which
\*             depends on the installed requests: a RequestException
\*             subclass or a plain ValueError
ProbeNet(net, status, body, jsonErr) ==
    [net |-> net, status |-> status, body |-> body, jsonErr |-> jsonErr]

NoProbe == ProbeNet("none", 0, "empty", "none")

ProbeStatuses == {200, 401, 403, 404, 500}

ProbeNets ==
    {ProbeNet("timeout", 0, "empty", "none"),
     ProbeNet("connection_error", 0, "empty", "none")}
    \union {ProbeNet("ok", st, b, "none") :
                st \in ProbeStatuses, b \in {"list", "object", "empty"}}
    \union {ProbeNet("ok", st, "garbage", j) :
                st \in ProbeStatuses, j \in {"RequestException", "ValueError"}}

\* the source names a probe is asked about
ProbeSources == {"fao", "world_bank", "unicef", "who", "un_stats", "xyz"}

\* the status record a probe returns
ProbeResult(success, message, endpoints) ==
    [kind |-> "status", rows |-> <<>>, err |-> "", success |-> success,
     message |-> message, endpoints |-> endpoints]

\* result['available_endpoints'] after a parsed 200 answer
available_endpoints(source, body) ==
    CASE body \in {"empty", "garbage"} -> <<>>
      [] source = "world_bank" ->
            IF body = "list" THEN <<"countries", "indicators", "data">> ELSE <<>>
      [] source = "fao" -> <<"countries", "indicators", "data", "dimensions">>
      [] source = "who" -> <<"dimensions", "indicators", "data">>
      [] source = "unicef" -> <<"goals", "indicators", "data">>

\* test_connection(source) of the exported class when the request meets n
ProbeOutcome(source, n) ==
    IF source \notin Adapters
    THEN ProbeResult(FALSE, "Error connecting", <<>>)
    ELSE CASE n.net = "timeout" -> ProbeResult(FALSE, "Connection timeout", <<>>)
           [] n.net = "connection_error" ->
                 ProbeResult(FALSE, "Connection error", <<>>)
           [] n.status = 200 ->
                 ProbeResult(TRUE, "Successfully connected",
                             available_endpoints(source, n.body))
           [] n.status = 401 -> ProbeResult(FALSE, "Authentication failed", <<>>)
           [] n.status = 403 -> ProbeResult(FALSE, "Access forbidden", <<>>)
           [] n.status = 404 -> ProbeResult(FALSE, "API endpoint not found", <<>>)
           [] OTHER -> ProbeResult(FALSE, "HTTP status", <<>>)

\* test_connection(source) of the first class when the request meets n: the
\* 200 branch parses a non-empty body inside the try block
ProbeOutcomeV1(source, n) ==
    IF source \notin Adapters
    THEN ProbeResult(FALSE, "Unknown source", <<>>)
    ELSE CASE n.net = "timeout" -> ProbeResult(FALSE, "Connection timeout", <<>>)
           [] n.net = "connection_error" ->
                 ProbeResult(FALSE, "Connection error", <<>>)
           [] n.status = 200 ->
                 IF n.body # "garbage"
                 THEN ProbeResult(TRUE, "Successfully connected", <<>>)
                 ELSE IF n.jsonErr = "RequestException"
                 THEN ProbeResult(FALSE, "Connection error", <<>>)
                 ELSE ProbeResult(FALSE, "Unexpected error", <<>>)
           [] OTHER -> ProbeResult(FALSE, "Connection failed: HTTP", <<>>)

\* the answers a probe of this source can meet: none without a request
ProbeEnvs(source) == IF source \in Adapters THEN ProbeNets ELSE {NoProbe}

test_connection ==
    \E n \in ProbeEnvs(req.source) :
        /\ res' = ProbeOutcome(req.source, n)
        /\ calls' = [NoCalls EXCEPT !.op = "test_connection",
                                    !.net = IF n = NoProbe THEN 0 ELSE 1,
                                    !.at = now]
        /\ env' = n
        /\ UNCHANGED <<req, cache, now, threads, data>>

\* a probe that keeps its status record in self.cache
test_connectionV1Caching ==
    \E n \in ProbeEnvs(req.source) :
        /\ res' = ProbeOutcomeV1(req.source, n)
        /\ calls' = [NoCalls EXCEPT !.op = "test_connectionV1",
                                    !.net = IF n = NoProbe THEN 0 ELSE 1,
                                    !.at = now]
        /\ env' = n
        /\ cache' = [k \in DOMAIN cache \union {<<req.source, "probe", <<>>, 0, 0>>} |->
                        IF k \in DOMAIN cache THEN cache[k]
                        ELSE [data |-> ProbeOutcomeV1(req.source, n),
                              timestamp |-> now]]
        /\ UNCHANGED <<req, now, threads, data>>

test_connectionV1 ==
    \E n \in ProbeEnvs(req.source) :
        /\ res' = ProbeOutcomeV1(req.source, n)
        /\ calls' = [NoCalls EXCEPT !.op = "test_connectionV1",
                                    !.net = IF n = NoProbe THEN 0 ELSE 1,
                                    !.at = now]
        /\ env' = n
        /\ UNCHANGED <<req, cache, now, threads, data>>

-----------------------------------------------------------------------------
(* Two calls of fetch_indicator_data with the same arguments on one object, *)
(* running in two threads.  A thread can be preempted between any two of    *)
(* the statements that touch self.cache: the check (line 212), the read of  *)
(* the entry (line 213), the fetch (line 216) and the write (line 217).     *)

Threads == {1, 2}

\* pc: "idle" | "check" | "read" | "fetch" | "write" | "done"; df: the table
\* the fetch returned; res: what the call gave back; fetched, wrote: the call
\* invoked the adapter, wrote the cache
ThreadIdle ==
    [pc |-> "idle", df |-> NoCall, res |-> NoCall, fetched |-> FALSE,
     wrote |-> FALSE]

NoThreads == [t \in Threads |-> ThreadIdle]

\* the behaviours of the outside a fetch of the first class can meet
FetchEnvsV1(r) ==
    {Env(TRUE, <<>>, <<>>)} \union
    {Env(FALSE, resp, noise) :
        resp \in [1..NetV1(SourceV1(r), r.indicator) -> WBResponses],
        noise \in [1..DrawsV1(SourceV1(r), CountriesOf(r), YearsOf(r)) -> Noise]}

\* lines 192-209: the checks before the cache is looked at
Enter(t) ==
    /\ threads[t].pc = "idle"
    /\ threads' = [threads EXCEPT ![t] =
          IF req.indicator \notin DOMAIN sdg_indicators
          THEN [@ EXCEPT !.pc = "done", !.res = Raised("Unknown indicator")]
          ELSE IF SourceV1(req) \notin Range(sdg_indicators[req.indicator])
          THEN [@ EXCEPT !.pc = "done", !.res = Raised("Source not available")]
          ELSE IF YearsOf(req) = <<>>
          THEN [@ EXCEPT !.pc = "done",
                         !.res = Raised("min() arg is an empty sequence")]
          ELSE [@ EXCEPT !.pc = "check"]]
    /\ UNCHANGED <<req, res, calls, env, cache, now, data>>

\* line 212: if self._is_cached(cache_key)
CheckCache(t) ==
    /\ threads[t].pc = "check"
    /\ threads' = [threads EXCEPT ![t].pc =
          IF _is_cached(cache, cache_key(SourceV1(req), req.indicator,
                                         CountriesOf(req), YearsOf(req)), now)
          THEN "read" ELSE "fetch"]
    /\ UNCHANGED <<req, res, calls, env, cache, now, data>>

\* line 213: return self.cache[cache_key]['data']; a missing key is a KeyError
ReadCache(t) ==
    /\ threads[t].pc = "read"
    /\ LET key == cache_key(SourceV1(req), req.indicator,
                            CountriesOf(req), YearsOf(req))
       IN threads' = [threads EXCEPT ![t].pc = "done",
                         ![t].res = IF key \in DOMAIN cache THEN cache[key].data
                                    ELSE Raised("KeyError")]
    /\ UNCHANGED <<req, res, calls, env, cache, now, data>>

\* line 216, and lines 220-222 when the adapter raises
Fetch(t) ==
    /\ threads[t].pc = "fetch"
    /\ \E e \in FetchEnvsV1(req) :
          threads' = [threads EXCEPT ![t] =
             IF FetchRaisesV1(SourceV1(req), req.indicator, e)
             THEN [@ EXCEPT !.pc = "done", !.res = Table(<<>>), !.fetched = TRUE]
             ELSE [@ EXCEPT !.pc = "write", !.fetched = TRUE,
                            !.df = _fetch_data_by_source(SourceV1(req),
                                      req.indicator, CountriesOf(req),
                                      YearsOf(req), e)]]
    /\ UNCHANGED <<req, res, calls, env, cache, now, data>>

\* lines 217-218: self._cache_data(cache_key, df); return df
WriteCache(t) ==
    /\ threads[t].pc = "write"
    /\ cache' = _cache_data(cache, cache_key(SourceV1(req), req.indicator,
                                             CountriesOf(req), YearsOf(req)),
                            threads[t].df, now)
    /\ threads' = [threads EXCEPT ![t].pc = "done", ![t].res = threads[t].df,
                                  ![t].wrote = TRUE]
    /\ UNCHANGED <<req, res, calls, env, now, data>>

\* requests of the two racing calls: at most one country, at most one year
RaceRequests ==
    {r \in V1Requests :
        /\ r.countries \in {None, Some(<<"AGO">>)}
        /\ r.years \in {Some(<<>>), Some(<<2024>>)}}

-----------------------------------------------------------------------------
(* The chart functions of src/utils/visualization_helpers.py.  A DataFrame *)
(* is the ordered list of its column labels and the sequence of its rows,  *)
(* each row a function from column label to cell.  The plotting library is *)
(* outside the repository: a plotly call raises when it is given a column  *)
(* the frame does not have, and otherwise accepts or rejects its other     *)
(* arguments as the outside decides.                                       *)

\* most rows of a DataFrame handed to a chart function
MaxRows == 2

Frame(columns, rows) == [columns |-> columns, rows |-> rows]
NoFrame == Frame(<<>>, <<>>)

\* data.empty: an axis of the frame has length 0
empty(df) == Len(df.columns) = 0 \/ Len(df.rows) = 0

\* name in data.columns
HasColumn(df, name) == name \in Range(df.columns)

\* data[name] = values: the column is overwritten in place, or appended
SetColumn(df, name, values) ==
    Frame(IF HasColumn(df, name) THEN df.columns ELSE Append(df.columns, name),
          [k \in DOMAIN df.rows |->
              [c \in Range(df.columns) \union {name} |->
                  IF c = name THEN values[k] ELSE df.rows[k][c]]])

\* a go.Figure, as far as the callers can tell the three kinds apart
Figure(state, text) ==
    [kind |-> "figure", rows |-> <<>>, err |-> "", state |-> state, text |-> text]

\* _create_empty_state_chart(message)
_create_empty_state_chart(message) == Figure("empty_state", message)

\* _create_error_chart(error_message): the message ends with str(e)
_create_error_chart(error_message) == Figure("error", error_message)

\* what the outside does during one chart call: whether plotly accepts the
\* arguments that are not column names, and the numbers np.random.randint gives
ChartEnv(lib, population) == [lib |-> lib, population |-> population]

\* px.<chart>(data, ...) given these column names goes through
PxAccepts(df, names, e) == names \subseteq Range(df.columns) /\ e.lib = "draws"

\* what the try block of a chart function comes to: an exception, an early
\* return of the empty-state figure, or a chart; with the frame as it leaves it
Raises(df) == [end |-> "raise", data |-> df]
Charted(df) == [end |-> "chart", data |-> df]
ReturnsEmpty(df) == [end |-> "empty_state", data |-> df]

\* if 'Population' not in data.columns: data['Population'] = np.random.randint(...)
WithPopulation(df, e) ==
    IF HasColumn(df, "Population") THEN df
    ELSE SetColumn(df, "Population", e.population)

\* (data['Hunger Rate'] * data['Population'] / 100).round(1), rates in tenths
HungryPopulation(df) ==
    [k \in DOMAIN df.rows |->
        (df.rows[k]["Hunger Rate"] * df.rows[k]["Population"] + 50) \div 100]

\* 'Hunger Rate' if 'Hunger Rate' in data.columns else data.columns[1] raises
\* IndexError on a frame of one column without 'Hunger Rate'
NoRateColumn(df) == ~HasColumn(df, "Hunger Rate") /\ Len(df.columns) < 2

\* 'Region' if 'Region' in data.columns else data.columns[0]
RegionColumn(df) == IF HasColumn(df, "Region") THEN "Region" ELSE df.columns[1]
\* 'Hunger Rate' if 'Hunger Rate' in data.columns else data.columns[1]
RateColumn(df) ==
    IF HasColumn(df, "Hunger Rate") THEN "Hunger Rate" ELSE df.columns[2]

\* the try block of create_hunger_overview_chart
HungerOverviewTry(df, chart_type, e) ==
    CASE chart_type \in {"bar", "horizontal_bar"} ->
            IF NoRateColumn(df) THEN Raises(df)
            ELSE IF PxAccepts(df, {RegionColumn(df), RateColumn(df)}, e)
            THEN Charted(df) ELSE Raises(df)
      [] chart_type = "treemap" ->
            LET d1 == WithPopulation(df, e)
            IN IF NoRateColumn(d1) THEN Raises(d1)
               ELSE IF PxAccepts(d1, {"Region", "Population", RateColumn(d1)}, e)
               THEN Charted(d1) ELSE Raises(d1)
      [] chart_type = "pie" ->
            LET d1 == WithPopulation(df, e)
            IN IF ~HasColumn(d1, "Hunger Rate") THEN Raises(d1)
               ELSE LET d2 == SetColumn(d1, "Hungry Population",
                                        HungryPopulation(d1))
                    IN IF PxAccepts(d2, {"Hungry Population", "Region"}, e)
                       THEN Charted(d2) ELSE Raises(d2)
      [] OTHER -> Raises(df)

\* indicators, with its default
DefaultIndicators == <<"Child Stunting", "Child Wasting", "Child Overweight">>
\* [col for col in indicators if col in data.columns]
available_indicators(df) == {c \in Range(DefaultIndicators) : HasColumn(df, c)}

\* the try block of create_malnutrition_chart
MalnutritionTry(df, chart_type, e) ==
    IF available_indicators(df) = {} THEN ReturnsEmpty(df)
    ELSE CASE chart_type = "grouped_bar" ->
                 \* fig.update_xaxis: a go.Figure has update_xaxes only
                 Raises(df)
           [] chart_type \in {"stacked_bar", "radar"} ->
                 IF e.lib = "draws" THEN Charted(df) ELSE Raises(df)
           [] chart_type = "heatmap" ->
                 \* set_index takes the column out of the frame
                 IF RegionColumn(df) \in available_indicators(df) THEN Raises(df)
                 ELSE IF e.lib = "draws" THEN Charted(df) ELSE Raises(df)
           [] OTHER -> Raises(df)

\* 'Country Code' if 'Country Code' in data.columns else 'country_code'
LocationsColumn(df) ==
    IF HasColumn(df, "Country Code") THEN "Country Code" ELSE "country_code"
\* 'Country' if 'Country' in data.columns else 'country_name'
HoverColumn(df) == IF HasColumn(df, "Country") THEN "Country" ELSE "country_name"

\* the try block of create_world_map, indicator its default 'Hunger Rate'
WorldMapTry(df, map_type, e) ==
    CASE map_type \in {"choropleth", "scatter_geo"} ->
            IF PxAccepts(df, {LocationsColumn(df), "Hunger Rate", HoverColumn(df)}, e)
            THEN Charted(df) ELSE Raises(df)
      [] map_type = "bubble" ->
            LET d1 == WithPopulation(df, e)
            IN IF PxAccepts(d1, {LocationsColumn(d1), "Hunger Rate", "Population",
                                 HoverColumn(d1)}, e)
               THEN Charted(d1) ELSE Raises(d1)
      [] OTHER -> Raises(df)

\* the try block of create_trend_chart, the three column arguments their defaults
TrendTry(df, chart_type, e) ==
    IF chart_type \in {"line", "area", "bar"}
    THEN IF PxAccepts(df, {"Year", "Value", "Region"}, e)
         THEN Charted(df) ELSE Raises(df)
    ELSE Raises(df)

\* the x_indicator and y_indicator the comparison chart is asked for
x_indicator == "Hunger Rate"
y_indicator == "Child Stunting"

\* the try block of create_comparison_chart, color_indicator its default None
ComparisonTry(df, chart_type, size_indicator, e) ==
    CASE chart_type = "scatter" ->
            IF PxAccepts(df, {x_indicator, y_indicator, RegionColumn(df)}
                             \union (IF size_indicator = "None" THEN {}
                                     ELSE {size_indicator}), e)
            THEN Charted(df) ELSE Raises(df)
      [] chart_type = "bubble" ->
            LET d1 == IF size_indicator = "None" THEN WithPopulation(df, e) ELSE df
                size == IF size_indicator = "None" THEN "Population"
                        ELSE size_indicator
            IN IF PxAccepts(d1, {x_indicator, y_indicator, size, "Region",
                                 RegionColumn(d1)}, e)
               THEN Charted(d1) ELSE Raises(d1)
      [] OTHER -> Raises(df)

\* a chart function as a whole: the check of data.empty, the try block and
\* its except branch
ChartOutcome(df, emptyMessage, errorMessage, try) ==
    IF empty(df)
    THEN [res |-> _create_empty_state_chart(emptyMessage), data |-> df]
    ELSE [res |-> CASE try.end = "raise" -> _create_error_chart(errorMessage)
                    [] try.end = "empty_state" ->
                          _create_empty_state_chart(
                              "No malnutrition indicators found in data")
                    [] OTHER -> Figure("chart", ""),
          data |-> try.data]

\* the chart types each function names in its docstring, and one it does not
ChartTypes(fn) ==
    CASE fn = "create_hunger_overview_chart" ->
            {"bar", "horizontal_bar", "treemap", "pie"}
      [] fn = "create_malnutrition_chart" ->
            {"grouped_bar", "stacked_bar", "radar", "heatmap"}
      [] fn = "create_world_map" -> {"choropleth", "bubble", "scatter_geo"}
      [] fn = "create_trend_chart" -> {"line", "area", "bar"}
      [] fn = "create_comparison_chart" -> {"scatter", "bubble"}

ChartFunctions ==
    {"create_hunger_overview_chart", "create_malnutrition_chart",
     "create_world_map", "create_trend_chart", "create_comparison_chart"}

ChartCall(fn, chart_type, size_indicator) ==
    [fn |-> fn, chart_type |-> chart_type, size_indicator |-> size_indicator]

ChartRequests ==
    {ChartCall(fn, t, "None") :
        fn \in ChartFunctions,
        t \in UNION {ChartTypes(f) : f \in ChartFunctions} \union {"xyz"}}
    \union {ChartCall("create_comparison_chart", t, "Population") :
                t \in {"scatter", "bubble", "xyz"}}

\* the bounds of np.random.randint(low, high) in each function
PopulationRange(fn) ==
    CASE fn = "create_hunger_overview_chart" -> {50, 1999}
      [] fn = "create_world_map" -> {1, 1399}
      [] OTHER -> {10, 1399}

\* the behaviours of the outside one chart call can meet
ChartEnvs(fn, df) ==
    {ChartEnv(lib, population) :
        lib \in {"draws", "raises"},
        population \in [DOMAIN df.rows -> PopulationRange(fn)]}

\* the column lists of the frames handed to the chart functions
FrameColumns ==
    {<<>>, <<"Region">>, <<"Region", "Hunger Rate">>,
     <<"Region", "Hunger Rate", "Population">>,
     <<"Region", "Hunger Rate", "Child Stunting">>,
     <<"Country Code", "Country", "Hunger Rate">>,
     <<"Year", "Value", "Region">>,
     <<"country_code", "country_name", "indicator_code", "year", "value",
       "source">>}

\* row k of a frame: a name in the label columns, a number in the others
Cell(column, k) ==
    IF column \in {"Region", "Country Code", "Country", "country_code",
                   "country_name", "indicator_code", "source"}
    THEN <<column, k>>
    ELSE 100 * k + 5

Frames ==
    {Frame(cols, [k \in 1..n |-> [c \in Range(cols) |-> Cell(c, k)]]) :
        cols \in FrameColumns, n \in 0..MaxRows}

\* one call of each function on the frame the caller holds: the figure it
\* returns, and the frame as the call leaves it
create_hunger_overview_chart ==
    /\ req.fn = "create_hunger_overview_chart"
    /\ \E e \in ChartEnvs(req.fn, data) :
          LET out == ChartOutcome(data, "No hunger data available",
                                  "Chart creation failed",
                                  HungerOverviewTry(data, req.chart_type, e))
          IN /\ res' = out.res
             /\ data' = out.data
             /\ calls' = [NoCalls EXCEPT !.op = req.fn, !.at = now]
             /\ env' = e
    /\ UNCHANGED <<req, cache, now, threads>>

create_malnutrition_chart ==
    /\ req.fn = "create_malnutrition_chart"
    /\ \E e \in ChartEnvs(req.fn, data) :
          LET out == ChartOutcome(data, "No malnutrition data available",
                                  "Chart creation failed",
                                  MalnutritionTry(data, req.chart_type, e))
          IN /\ res' = out.res
             /\ data' = out.data
             /\ calls' = [NoCalls EXCEPT !.op = req.fn, !.at = now]
             /\ env' = e
    /\ UNCHANGED <<req, cache, now, threads>>

create_world_map ==
    /\ req.fn = "create_world_map"
    /\ \E e \in ChartEnvs(req.fn, data) :
          LET out == ChartOutcome(data, "No geographic data available",
                                  "Map creation failed",
                                  WorldMapTry(data, req.chart_type, e))
          IN /\ res' = out.res
             /\ data' = out.data
             /\ calls' = [NoCalls EXCEPT !.op = req.fn, !.at = now]
             /\ env' = e
    /\ UNCHANGED <<req, cache, now, threads>>

create_trend_chart ==
    /\ req.fn = "create_trend_chart"
    /\ \E e \in ChartEnvs(req.fn, data) :
          LET out == ChartOutcome(data, "No trend data available",
                                  "Trend chart creation failed",
                                  TrendTry(data, req.chart_type, e))
          IN /\ res' = out.res
             /\ data' = out.data
             /\ calls' = [NoCalls EXCEPT !.op = req.fn, !.at = now]
             /\ env' = e
    /\ UNCHANGED <<req, cache, now, threads>>

create_comparison_chart ==
    /\ req.fn = "create_comparison_chart"
    /\ \E e \in ChartEnvs(req.fn, data) :
          LET out == ChartOutcome(data, "No comparison data available",
                                  "Comparison chart creation failed",
                                  ComparisonTry(data, req.chart_type, req.size_indicator, e))
          IN /\ res' = out.res
             /\ data' = out.data
             /\ calls' = [NoCalls EXCEPT !.op = req.fn, !.at = now]
             /\ env' = e
    /\ UNCHANGED <<req, cache, now, threads>>

-----------------------------------------------------------------------------
(* Specifications.  An object of the exported class has no cache and an    *)
(* object of the first class has its own, so the two entry points share no *)
(* state: SpecSdg runs the exported class alone and SpecV1 the first class *)
(* alone (with the clock), both over all enumerated requests; Spec runs    *)
(* the two side by side, within one hour, on the requests that name at     *)
(* most one country and give the years.                                    *)

InitWith(requests) ==
    /\ req \in requests
    /\ res = NoCall
    /\ calls = NoCalls
    /\ env = NoEnv
    /\ cache = <<>>
    /\ now = 0
    /\ threads = NoThreads
    /\ data = NoFrame

BothRequests ==
    {r \in SdgRequests \intersect V1Requests :
        /\ r.countries \in {None, Some(<<>>), Some(<<"AGO">>)}
        /\ r.years \in {Some(<<>>), Some(<<2024>>), Some(<<2023, 2024>>)}}

Init == InitWith(BothRequests)
Next == fetch_sdg_indicator \/ fetch_indicator_data
Spec == Init /\ [][Next]_vars

InitSdg == InitWith(SdgRequests)
NextSdg == fetch_sdg_indicator
SpecSdg == InitSdg /\ [][NextSdg]_vars

InitV1 == InitWith(V1Requests)
NextV1 == fetch_indicator_data \/ Tick
SpecV1 == InitV1 /\ [][NextV1]_vars

\* requests of one indicator that differ in the order of the countries, or in
\* the years between the same first and last year
SeqRequests ==
    {Request("2.2.1", Some(<<"WORLD", "AGO">>), Some(<<2024>>), "None"),
     Request("2.2.1", Some(<<"AGO", "WORLD">>), Some(<<2024>>), "None"),
     Request("2.2.1", Some(<<"AGO">>), Some(<<2022, 2024>>), "None"),
     Request("2.2.1", Some(<<"AGO">>), Some(<<2022, 2023, 2024>>), "None")}

\* a call of fetch_indicator_data with other arguments than the last one
fetch_indicator_data_next ==
    \E r \in SeqRequests \ {req} : \E e \in V1Envs(r, cache, now) :
        /\ req' = r
        /\ res' = V1Outcome(r, e, cache, now).res
        /\ calls' = [V1Outcome(r, e, cache, now).calls
                        EXCEPT !.op = "fetch_indicator_data", !.at = now]
        /\ cache' = V1Outcome(r, e, cache, now).cache
        /\ env' = e
        /\ UNCHANGED <<now, threads, data>>

\* one object of the first class serving a sequence of different requests
InitV1Seq == InitWith(SeqRequests)
NextV1Seq == fetch_indicator_data \/ fetch_indicator_data_next
SpecV1Seq == InitV1Seq /\ [][NextV1Seq]_vars

\* two threads racing through fetch_indicator_data on one object
InitRace == InitWith(RaceRequests)
NextRace ==
    \E t \in Threads :
        Enter(t) \/ CheckCache(t) \/ ReadCache(t) \/ Fetch(t) \/ WriteCache(t)
SpecRace == InitRace /\ [][NextRace]_vars

\* requests that name the World Bank, or no source, as far as both entry
\* points are enumerated for them
NetRequests ==
    {r \in SdgRequests \intersect V1Requests : r.source \in {"world_bank", "None"}}

\* both entry points on the requests that reach the network
InitNet == InitWith(NetRequests)
NextNet == fetch_sdg_indicator \/ fetch_indicator_data
SpecNet == InitNet /\ [][NextNet]_vars

\* requests whose one country code is a key of the adapters' value tables, a
\* member of a region, or neither
EntryRequests ==
    {Request(i, Some(<<c>>), Some(<<2024>>), s) :
        i \in {"2.1.1", "2.2.1", "2.2.3"},
        c \in {"Sub-Saharan Africa", "WORLD", "AGO", "XXX"},
        s \in {"None", "fao", "unicef", "who"}}

\* the exported entry point on those requests
InitEntry == InitWith(EntryRequests)
SpecEntry == InitEntry /\ [][NextSdg]_vars

\* requests of three of the source arguments that send nothing to the World
\* Bank through the exported class
StaticRequests ==
    {r \in SdgRequests :
        /\ r.source \in {"None", "unicef", "un_stats"}
        /\ r.indicator \in DOMAIN sdg2_indicators =>
               data_source(r) # "world_bank"}

\* both entry points and both probes on one pair of objects
InitFrame == InitWith(StaticRequests \cap V1Requests)
NextFrame ==
    fetch_sdg_indicator \/ fetch_indicator_data \/ test_connection
    \/ test_connectionV1
SpecFrame == InitFrame /\ [][NextFrame]_vars

\* the five chart functions, each called on the frame the caller holds
InitCharts ==
    /\ req \in ChartRequests
    /\ res = NoCall
    /\ calls = NoCalls
    /\ env = NoEnv
    /\ cache = <<>>
    /\ now = 0
    /\ threads = NoThreads
    /\ data \in Frames
NextCharts ==
    create_hunger_overview_chart \/ create_malnutrition_chart
    \/ create_world_map \/ create_trend_chart \/ create_comparison_chart
SpecCharts == InitCharts /\ [][NextCharts]_vars

\* one object of the exported class with the clock running: resolutions and
\* probes at any hour
InitStatic == InitWith(StaticRequests)
NextStatic == fetch_sdg_indicator \/ test_connection \/ Tick
SpecStatic == InitStatic /\ [][NextStatic]_vars

\* the probes of both classes, each asked about one source name
InitProbe == InitWith({[source |-> s] : s \in ProbeSources})
NextProbe == test_connection \/ test_connectionV1
SpecProbe == InitProbe /\ [][NextProbe]_vars

\* The calendar.  Hour 0 of the clock is the first hour of 2024, the year the
\* static table is dated (current_year); a year has HoursPerYear hours.
HoursPerYear == 365 * 24
YearAt(t) == current_year + (t \div HoursPerYear)
CalendarYears == current_year..(current_year + 2)

\* requests that leave out the countries or the years, as far as both entry
\* points draw at most one variation more than MaxDraws for them
DefaultsRequests ==
    {r \in {Request(i, c, y, s) :
                i \in ReqIndicators, c \in {None, Some(<<"AGO">>)},
                y \in {None, Some(<<2024>>)}, s \in ReqSources} :
        /\ IsNone(r.countries) \/ IsNone(r.years)
        /\ r.indicator \in DOMAIN sdg2_indicators =>
              Draws(data_source(r), CountriesOf(r), YearsOf(r)) <= MaxDraws + 1
        /\ (r.indicator \in DOMAIN sdg_indicators
            /\ SourceV1(r) \in Range(sdg_indicators[r.indicator])) =>
              DrawsV1(SourceV1(r), CountriesOf(r), YearsOf(r)) <= MaxDraws + 1}

\* both entry points on requests with defaults, started in any calendar year
InitDefaults ==
    /\ req \in DefaultsRequests
    /\ res = NoCall
    /\ calls = NoCalls
    /\ env = NoEnv
    /\ cache = <<>>
    /\ now \in {(y - current_year) * HoursPerYear : y \in CalendarYears}
    /\ threads = NoThreads
    /\ data = NoFrame
NextDefaults == fetch_sdg_indicator \/ fetch_indicator_data
SpecDefaults == InitDefaults /\ [][NextDefaults]_vars

\* the country codes of the membership table
MemberCodes == UNION {regional_groups[k].members : k \in DOMAIN regional_groups}

\* codes the region lookup is asked about: every member and some others
LookupCodes == MemberCodes \union {"WORLD", "IDN", "XXX", "ago", ""}

\* one call of self._get_region_for_country(req.country_code)
RegionLookup ==
    /\ res' = [kind |-> "region", rows |-> <<>>, err |-> "",
               region |-> _get_region_for_country(req.country_code)]
    /\ calls' = [NoCalls EXCEPT !.op = "_get_region_for_country", !.at = now]
    /\ UNCHANGED <<req, env, cache, now, threads, data>>

InitRegion == InitWith({[country_code |-> c] : c \in LookupCodes})
NextRegion == RegionLookup
SpecRegion == InitRegion /\ [][NextRegion]_vars

-----------------------------------------------------------------------------
(* Vocabulary of the properties *)

Called == calls.op # "none"
ByV1 == calls.op = "fetch_indicator_data"
BySdg == calls.op = "fetch_sdg_indicator"

\* the indicator of the request is a key of the registry
Registered == req.indicator \in {"2.1.1", "2.1.2", "2.2.1", "2.2.2a", "2.2.2b", "2.2.3"}

\* no source override, or one the indicator's list of supporting sources holds
SupportedOverride ==
    req.source = "None" \/ req.source \in Range(sdg_indicators[req.indicator])

\* the adapter the call invoked ended in an exception
AdapterRaised ==
    /\ calls.adapter # "none"
    /\ \/ env.forced
       \/ ByV1 /\ calls.net = 1 /\ WBRaisesV1(env.resp[1])

\* the source was unavailable in the sense of the design: the adapter was made
\* to fail, or the one HTTP answer was a timeout, a non-200 status or a body
\* that is not the expected envelope
SourceFailed ==
    /\ calls.adapter # "none"
    /\ \/ env.forced
       \/ /\ calls.net = 1
          /\ \/ env.resp[1].net # "ok"
             \/ env.resp[1].status # 200
             \/ env.resp[1].body # "data"

\* the key under which the first class caches the request
ReqKey == cache_key(SourceV1(req), req.indicator, CountriesOf(req), YearsOf(req))

\* positions of the rows of the result with this country code and year
RowsFor(c, y) ==
    {k \in DOMAIN res.rows :
        res.rows[k].country_code = c /\ res.rows[k].year = y}

RowKey(r) == <<r.country_code, r.indicator_code, r.year>>

-----------------------------------------------------------------------------
(* C1: for a registered indicator and a supported (or absent) source        *)
(* override, whatever the countries, the years and the outside, a call      *)
(* returns a table and raises nothing.  fetch_indicator_data breaks it:     *)
(* min(years) raises ValueError for an empty year list, and the WHO adapter *)
(* of the first class returns None.                                         *)
C1_ResolveNeverRaises ==
    (Called /\ Registered /\ SupportedOverride) => res.kind = "table"

C3_UnknownIndicatorFails ==
    [][(~Registered /\ calls'.op # "none") =>
          /\ res'.kind = "raise"
          /\ res'.err \in {"Unknown indicator", "Unknown SDG indicator"}
          /\ calls'.adapter = "none" /\ calls'.net = 0
          /\ ~calls'.fallback /\ ~calls'.hit
          /\ cache' = cache]_vars

C3_Witness ==
    /\ ByV1 /\ req.indicator = "9.9.9" /\ res.kind = "raise"

(* C4: an explicit source override outside the indicator's list of          *)
(* supporting sources makes the call fail with the unsupported-source       *)
(* error, with no adapter invoked and no fallback; without an override the  *)
(* first listed source is used.  fetch_sdg_indicator breaks it: it          *)
(* dispatches on any override without looking at the indicator.             *)
C4_UnsupportedSourceRejected ==
    /\ (Called /\ Registered /\ ~SupportedOverride) =>
          /\ res.kind = "raise" /\ res.err = "Source not available"
          /\ calls.adapter = "none" /\ ~calls.fallback
    /\ (Called /\ Registered /\ req.source = "None" /\ calls.adapter # "none") =>
          calls.adapter = sdg_indicators[req.indicator][1]

(* C5: of two consecutive calls with the same arguments within the TTL the  *)
(* second returns the table of the first and invokes no adapter.            *)
(* fetch_sdg_indicator breaks it: it keeps no cache and its adapters add a  *)
(* fresh random variation to every value.                                   *)
C5_RepeatedCallIdentical ==
    [][(Called /\ Registered /\ res.kind = "table" /\ calls'.at - calls.at <= 24) =>
          /\ res' = res
          /\ calls'.adapter = "none" /\ calls'.net = 0]_vars

C7_OutageDoesNotPoisonCache ==
    [][(ByV1 /\ SourceFailed) =>
          /\ ~(ReqKey \in DOMAIN cache /\ cache[ReqKey].timestamp = calls.at)
          /\ (calls'.at > calls.at) => ~calls'.hit]_vars

(* C8: a registered indicator never resolves to an empty table: an adapter  *)
(* that ends without error and without rows is replaced by the static       *)
(* statistics.  Both entry points break it: the adapter's empty table is    *)
(* returned as it is.                                                       *)
C8_EmptyResultFallsBack ==
    (Called /\ Registered /\ SupportedOverride /\ res.kind = "table") =>
        res.rows # <<>>

C10_UniqueKeys ==
    res.kind = "table" =>
        \A j, k \in DOMAIN res.rows :
            j # k => RowKey(res.rows[j]) # RowKey(res.rows[k])

-----------------------------------------------------------------------------
(* Vocabulary of the properties about rows *)

\* the country codes a row of the model can carry, in the order Python
\* compares strings
CodeOrder == <<"AGO", "AO", "EASTERN_ASIA", "EUROPE_AND_NORTHERN_AMERICA",
               "LATIN_AMERICA_AND_CARIBBEAN", "NORTHERN_AFRICA", "OCEANIA",
               "SOUTHERN_ASIA", "SUB-SAHARAN_AFRICA", "WESTERN_ASIA", "WORLD">>

CodeRank(c) == CHOOSE k \in DOMAIN CodeOrder : CodeOrder[k] = c

\* (country_code, year) of a comes no later than that of b
RowLE(a, b) ==
    \/ CodeRank(a.country_code) < CodeRank(b.country_code)
    \/ a.country_code = b.country_code /\ a.year <= b.year

\* the label each adapter puts on its rows
AgencyName(adapter) ==
    CASE adapter = "fao" -> "FAO"
      [] adapter = "unicef" -> "UNICEF"
      [] adapter = "who" -> "WHO"
      [] adapter = "world_bank" -> "World Bank"

\* the World Bank answered every request of the call with valued, well-dated
\* records that cover the requested years
WBHasAll ==
    \A c \in DOMAIN env.resp :
        LET rp == env.resp[c] IN
        /\ rp.net = "ok" /\ rp.status = 200 /\ rp.body = "data"
        /\ \A k \in DOMAIN rp.recs : rp.recs[k].hasValue /\ rp.recs[k].dateOk
        /\ Range(YearsOf(req)) \subseteq {rp.recs[k].year : k \in DOMAIN rp.recs}

\* the call went to a source that works and has every requested value
WorkingSource ==
    /\ Called /\ Registered /\ SupportedOverride
    /\ calls.adapter # "none" /\ ~env.forced /\ ~calls.hit
    /\ calls.adapter = "world_bank" => WBHasAll

(* C11: the rows of every returned table are sorted by (country_code,       *)
(* year).  fetch_sdg_indicator breaks it: nothing sorts; the adapters list  *)
(* the countries in the order of the request, and the static table starts   *)
(* with WORLD and goes on with the regions in the order of its dict.        *)
C11_RowsSorted ==
    (Called /\ res.kind = "table") =>
        \A k \in 1..(Len(res.rows) - 1) : RowLE(res.rows[k], res.rows[k + 1])

(* C12: with a working source that has every requested value, the table     *)
(* holds exactly one row per requested (country, year) and no row of a year *)
(* or a country that was not requested.  fetch_sdg_indicator breaks it: the *)
(* FAO and UNICEF adapters return 2023 and 2024 whatever years are asked    *)
(* for, and the WHO adapter the last three of them.                         *)
C12_OneRowPerRequestedPair ==
    (BySdg /\ WorkingSource) =>
        /\ res.kind = "table"
        /\ \A c \in Range(CountriesOf(req)) : \A y \in Range(YearsOf(req)) :
              Cardinality(RowsFor(c, y)) = 1
        /\ \A k \in DOMAIN res.rows :
              /\ res.rows[k].year \in Range(YearsOf(req))
              /\ res.rows[k].country_code \in Range(CountriesOf(req))

C14_RegistryDefaultIsFirstSource ==
    /\ \A i \in DOMAIN sdg_indicators :
          /\ Len(sdg_indicators[i]) >= 1
          /\ Range(sdg_indicators[i]) \subseteq Adapters
          /\ i \in DOMAIN sdg2_indicators
          /\ data_source(Request(i, None, None, "None")) = sdg_indicators[i][1]
          /\ SourceV1(Request(i, None, None, "None")) = sdg_indicators[i][1]
    /\ (Called /\ Registered /\ SupportedOverride /\ ~calls.hit
        /\ res.kind # "raise") =>
          calls.adapter = IF req.source = "None"
                          THEN sdg_indicators[req.indicator][1]
                          ELSE req.source

C14_Witness ==
    /\ BySdg /\ req.indicator = "2.2.3" /\ req.source = "None"
    /\ calls.adapter = "who" /\ res.kind = "table" /\ res.rows # <<>>

(* C16: for every source name and every network outcome the probe returns a *)
(* status record, never raises, and reports success exactly when the HTTP   *)
(* status was 200.  The probe of the first class breaks the last part: it   *)
(* parses the body of a 200 answer inside its try block, so a 200 answer    *)
(* whose body is not JSON is reported as a failure.                         *)
C16_ProbeSuccessIffStatus200 ==
    Called =>
        /\ res.kind = "status"
        /\ res.success <=> (calls.net = 1 /\ env.net = "ok" /\ env.status = 200)

\* the request with its omitted lists written out: ['WORLD'] for the
\* countries and ys for the years
Explicit(r, ys) ==
    [r EXCEPT !.countries = IF IsNone(r.countries) THEN Some(<<"WORLD">>)
                            ELSE r.countries,
              !.years = IF IsNone(r.years) THEN Some(ys) ELSE r.years]

\* the ten consecutive years that end with y
TenYearsEnding(y) == [k \in 1..10 |-> y - 10 + k]

\* this step is a call that gives what the same call on request r would give
StepBehavesAs(r) ==
    /\ calls'.op = "fetch_sdg_indicator" => res' = SdgOutcome(r, env').res
    /\ calls'.op = "fetch_indicator_data" =>
          /\ res' = V1Outcome(r, env', cache, now).res
          /\ cache' = V1Outcome(r, env', cache, now).cache

(* C17 as stated: a call without countries behaves as the call with         *)
(* ["WORLD"], and a call without years as the call with the ten consecutive *)
(* years that end with the calendar year of the call.                       *)
C17_DefaultsFollowCalendar ==
    [][StepBehavesAs(Explicit(req, TenYearsEnding(YearAt(now))))]_vars

(* C17 as amended: a call without countries behaves as the call with        *)
(* ["WORLD"], and a call without years as the call with the fixed list      *)
(* 2015, ..., 2024, whatever the calendar year of the call.                 *)
C17_DefaultsAreWorldAndSdgPeriod ==
    [][StepBehavesAs(Explicit(req,
          <<2015, 2016, 2017, 2018, 2019, 2020, 2021, 2022, 2023, 2024>>))]_vars

C17_Witness ==
    /\ BySdg /\ IsNone(req.countries) /\ IsNone(req.years)
    /\ calls.adapter = "who" /\ YearAt(calls.at) = 2025
    /\ Len(res.rows) = 3
    /\ res.rows[1].country_code = "WORLD" /\ res.rows[3].year = 2024

\* the regions whose member list holds the code
RegionsOf(c) ==
    {regional_groups[k].name :
        k \in {j \in DOMAIN regional_groups : c \in regional_groups[j].members}}

(* C18: the region lookup returns, for a code that some region lists, a     *)
(* region whose member list holds the code, and "World" for a code no       *)
(* region lists; for "SDN", which Sub-Saharan Africa and Northern Africa    *)
(* both list, every call returns the same region (Sub-Saharan Africa, the   *)
(* first of the two in the table).                                          *)
C18_RegionLookup ==
    Called =>
        /\ res.kind = "region"
        /\ IF RegionsOf(req.country_code) = {}
           THEN res.region = "World"
           ELSE res.region \in RegionsOf(req.country_code)
        /\ req.country_code = "SDN" => res.region = "Sub-Saharan Africa"

C18_Witness ==
    /\ Called /\ req.country_code = "SDN"
    /\ Cardinality(RegionsOf("SDN")) = 2
    /\ res.region = "Sub-Saharan Africa"

\* r and q differ in nothing but the order of their countries
SameButOrder(r, q) ==
    /\ r.indicator = q.indicator /\ r.source = q.source /\ r.years = q.years
    /\ ~IsNone(r.countries) /\ ~IsNone(q.countries)
    /\ Get(r.countries) # Get(q.countries)
    /\ Len(Get(r.countries)) = Len(Get(q.countries))
    /\ Range(Get(r.countries)) = Range(Get(q.countries))

(* C19: a call that differs from the one before it only in the order of the *)
(* countries maps to the same cache key and is served from the cache, with  *)
(* no adapter call.  fetch_indicator_data breaks it: the key joins the      *)
(* countries in the order they were given.                                  *)
C19_CountryOrderSharesKey ==
    [][(ByV1 /\ ReqKey \in DOMAIN cache /\ calls'.op = "fetch_indicator_data"
        /\ SameButOrder(req, req')) =>
          /\ calls'.hit /\ calls'.adapter = "none"
          /\ DOMAIN cache' = DOMAIN cache]_vars

(* C20: the table a cache hit returns has rows only for years of the        *)
(* request's own year list.  fetch_indicator_data breaks it: the key holds  *)
(* only the least and the greatest year, so a request is served the entry   *)
(* of an earlier request with other years between the same two.             *)
C20_HitOnlyRequestedYears ==
    (ByV1 /\ calls.hit /\ res.kind = "table") =>
        \A k \in DOMAIN res.rows : res.rows[k].year \in Range(YearsOf(req))

\* both racing calls have returned
BothDone == \A t \in Threads : threads[t].pc = "done"

(* C15: when two calls with the same key have raced through the cache       *)
(* check, the fetch and the cache write (at least one of them wrote),       *)
(* neither has raised, both have returned a table, the cache holds under    *)
(* the key one entry made of a table and its timestamp, and the adapter was *)
(* invoked at most twice.  fetch_indicator_data breaks it for the source    *)
(* "who": the WHO adapter of the first class returns None, which both       *)
(* calls return and the cache stores.                                       *)
C15_RaceLeavesOneWellFormedEntry ==
    (BothDone /\ \E t \in Threads : threads[t].wrote) =>
        /\ \A t \in Threads : threads[t].res.kind = "table"
        /\ ReqKey \in DOMAIN cache
        /\ cache[ReqKey].data.kind = "table"
        /\ cache[ReqKey].timestamp \in 0..MaxTime
        /\ Cardinality({t \in Threads : threads[t].fetched}) <= 2

-----------------------------------------------------------------------------
(* Vocabulary of the properties about the World Bank *)

\* the call invoked the World Bank adapter, which sent its requests
AskedWorldBank ==
    /\ Called /\ calls.adapter = "world_bank" /\ ~env.forced /\ ~calls.hit

\* the answer came, with the expected envelope
GoodEnvelope(rp) == rp.net = "ok" /\ rp.status = 200 /\ rp.body = "data"

\* the answer came, with another status than 200 or without the envelope
BadAnswer(rp) == rp.net = "ok" /\ (rp.status # 200 \/ rp.body # "data")

\* the records of the well-formed answers of the call, in the order received
RECURSIVE AnsweredRecords(_)
AnsweredRecords(resp) ==
    IF resp = <<>> THEN <<>>
    ELSE (IF GoodEnvelope(Head(resp)) THEN Head(resp).recs ELSE <<>>)
         \o AnsweredRecords(Tail(resp))

(* C21: when the source answers with a status other than 200 or with a     *)
(* body that is not the envelope, the call returns the static statistics.  *)
(* Both World Bank adapters break it: such an answer adds no rows and       *)
(* raises nothing, so the call returns what the other answers gave, an      *)
(* empty table when there are none.                                         *)
C21_BadAnswerFallsBack ==
    (AskedWorldBank /\ \E c \in DOMAIN env.resp : BadAnswer(env.resp[c])) =>
        /\ calls.fallback
        /\ res.kind = "table" /\ res.rows # <<>>
        /\ \A k \in DOMAIN res.rows : res.rows[k].source # "World Bank"

C23_RowIffValue ==
    AskedWorldBank =>
        /\ Len(res.rows) =
              Len(SelectSeq(AnsweredRecords(env.resp), LAMBDA r : r.hasValue))
        /\ \A k \in DOMAIN res.rows :
              \E j \in DOMAIN AnsweredRecords(env.resp) :
                  /\ AnsweredRecords(env.resp)[j].hasValue
                  /\ AnsweredRecords(env.resp)[j].value = res.rows[k].value

(* C24: a record whose year does not parse is dropped alone: every record   *)
(* of a well-formed answer that has a value and a year that parses, before  *)
(* or after the bad one, is a row of the table.  Both adapters break it:    *)
(* the exported one drops the records after the bad one, the first one      *)
(* raises and the call returns an empty table.                              *)
C24_BadYearDroppedAlone ==
    AskedWorldBank =>
        \A j \in DOMAIN AnsweredRecords(env.resp) :
            LET r == AnsweredRecords(env.resp)[j]
            IN (r.hasValue /\ r.dateOk) =>
                  \E k \in DOMAIN res.rows :
                      res.rows[k].year = r.year /\ res.rows[k].value = r.value

-----------------------------------------------------------------------------
(* C25: every row of a returned table carries the indicator code of the     *)
(* request, on the live path and on the fallback path.  fetch_sdg_indicator *)
(* breaks it on the live path: it hands the adapters the source's native    *)
(* code (indicator_info['code']) and they write it into the rows.           *)
C25_RowsCarryRequestedIndicator ==
    (Called /\ res.kind = "table") =>
        \A k \in DOMAIN res.rows : res.rows[k].indicator_code = req.indicator

\* the table of values the invoked adapter of the exported class reads
ReferenceDict ==
    CASE calls.adapter = "fao" -> current_data
      [] calls.adapter = "who" -> anemia_data
      [] calls.adapter = "unicef" ->
            IF HasSTUNT(sdg2_indicators[req.indicator].code) THEN stunting_data
            ELSE IF HasWAST(sdg2_indicators[req.indicator].code) THEN wasting_data
            ELSE overweight_data

\* the value of the table for a code: its own entry, else the entry of its
\* region, else the entry of WORLD
DirectThenRegion(d, code) ==
    IF code \in DOMAIN d THEN d[code]
    ELSE IF _get_region_for_country(code) \in DOMAIN d
    THEN d[_get_region_for_country(code)]
    ELSE d["WORLD"]

\* the adapter's lower bound on a value: max(0, .) for UNICEF, max(5, .) for WHO
Clamped(adapter, v) ==
    CASE adapter = "unicef" -> Max2(0, v)
      [] adapter = "who" -> Max2(50, v)
      [] OTHER -> v

(* C26: the value used for a requested code is that of the code's own entry *)
(* in the table of reference values when it has one, that of its region     *)
(* when it has none, and that of WORLD when neither exists.  The adapters   *)
(* of the exported class break it: they look up only the region of the      *)
(* code, so the code "Sub-Saharan Africa", a key of the table, gets the     *)
(* value of WORLD.                                                          *)
C26_DirectEntryFirst ==
    (BySdg /\ calls.adapter \in {"fao", "unicef", "who"} /\ ~env.forced) =>
        /\ res.kind = "table"
        /\ \A k \in DOMAIN res.rows :
              res.rows[k].value =
                 Clamped(calls.adapter,
                         DirectThenRegion(ReferenceDict, res.rows[k].country_code)
                         + env.noise[k])

(* C27: a probe changes neither the cache nor the request nor the clock     *)
(* (the registry and the region table are fixed), so every resolve call     *)
(* made after it gives, for every behaviour of the outside, what it would   *)
(* have given had the probe not run.                                        *)
C27_ProbeLeavesResolveAlone ==
    [][calls'.op \in {"test_connection", "test_connectionV1"} =>
          /\ cache' = cache /\ req' = req /\ now' = now /\ threads' = threads
          /\ \A e \in V1Envs(req, cache, now) :
                V1Outcome(req, e, cache', now') = V1Outcome(req, e, cache, now)
          /\ V1Envs(req, cache', now') = V1Envs(req, cache, now)]_vars

C27_Witness ==
    /\ calls.op = "test_connectionV1" /\ res.kind = "status" /\ res.success
    /\ cache # <<>> /\ ReqKey \in DOMAIN cache

\* the global value of each indicator in the static table, in tenths
StaticWorldValue(indicator) ==
    CASE indicator = "2.1.1" -> 91
      [] indicator = "2.2.1" -> 232
      [] indicator = "2.2.3" -> 299

\* every fallback gives the fixed table of the indicator
FallbackIsFixed ==
    (BySdg /\ calls.fallback) =>
        /\ res.kind = "table"
        /\ Len(res.rows) = IF req.indicator \in {"2.1.1", "2.2.1"} THEN 9 ELSE 1
        /\ res.rows[1] = Row("WORLD", "World", req.indicator, 2024,
                             StaticWorldValue(req.indicator),
                             "UN Official Statistics")
        /\ \A k \in DOMAIN res.rows : res.rows[k].year = 2024

(* C28: the fallback is static: whatever the hour and the calls made        *)
(* before, a fallback of fetch_sdg_indicator gives the fixed table of the   *)
(* indicator, and a fallback that follows another gives the identical       *)
(* table.                                                                   *)
C28_FallbackIsStatic ==
    /\ []FallbackIsFixed
    /\ [][(BySdg /\ calls.fallback /\ calls'.op = "fetch_sdg_indicator"
           /\ calls'.fallback) => res' = res]_vars

C28_Witness ==
    /\ BySdg /\ calls.fallback /\ calls.at >= 24
    /\ Len(res.rows) = 9 /\ res.rows[1].value = 232

\* a chart function has been called
ChartCalled == calls.op \in ChartFunctions

\* the chart type asked for is one the function draws
SupportedType == req.chart_type \in ChartTypes(req.fn)

\* the columns a function names with no other column to take their place
RequiredColumns(fn, chart_type, size_indicator) ==
    CASE fn = "create_hunger_overview_chart" ->
            (CASE chart_type = "treemap" -> {"Region"}
               [] chart_type = "pie" -> {"Hunger Rate", "Region"}
               [] OTHER -> {})
      [] fn = "create_malnutrition_chart" ->
            (IF chart_type = "grouped_bar" THEN {"Region"} ELSE {})
      [] fn = "create_world_map" -> {"Hunger Rate"}
      [] fn = "create_trend_chart" -> {"Year", "Value", "Region"}
      [] fn = "create_comparison_chart" ->
            {x_indicator, y_indicator}
            \union (IF size_indicator = "None" THEN {} ELSE {size_indicator})
            \union (IF chart_type = "bubble" THEN {"Region"} ELSE {})

\* the frame lacks a column the call needs: a named one, or every indicator
\* of the malnutrition chart
RequiredMissing ==
    \/ ~(RequiredColumns(req.fn, req.chart_type, req.size_indicator)
            \subseteq Range(data.columns))
    \/ req.fn = "create_malnutrition_chart" /\ available_indicators(data) = {}

(* C29: create_hunger_overview_chart, create_world_map and                  *)
(* create_comparison_chart leave the table they are given as it was: after  *)
(* the call, whatever the chart type, it has the same columns and the same  *)
(* rows.                                                                    *)
C29_ChartsLeaveTableAlone ==
    [][calls'.op \in {"create_hunger_overview_chart", "create_world_map",
                      "create_comparison_chart"} => data' = data]_vars

(* C30: every call of a chart function gives a figure and raises nothing:   *)
(* the empty-state figure when the table is empty, and, on a table that is  *)
(* not empty, the error figure when the chart type is unsupported or a      *)
(* required column is missing.                                              *)
C30_ChartsNeverRaise ==
    ChartCalled =>
        /\ res.kind = "figure"
        /\ empty(data) => res.state = "empty_state"
        /\ (~empty(data) /\ (~SupportedType \/ RequiredMissing)) =>
              res.state = "error"

====
